---- MODULE Spec2Model ----
(***************************************************************************)
(* Model of handler.go: user registration in a Datastore transaction,      *)
(* password login that issues an ES256 JWT, and the Authorization check of *)
(* a bearer token in front of the protected hello handler.                 *)
(*                                                                         *)
(* The cryptographic primitives are modelled symbolically: a bcrypt hash   *)
(* is the pair of its salt and a digest that only the same salt and        *)
(* password reproduce, and an ECDSA signature records the key and the      *)
(* signing string it was made over.                                        *)
(***************************************************************************)
EXTENDS Integers, Sequences, FiniteSets, TLC

\* ---------------------------------------------------------------- bounds
NProcs == 2
MaxIssued == 1
MaxLate == 1

\* One hour in seconds: time.Hour * 1, taken through Unix().
Hour == 3600

Procs == 1..NProcs
Users == {"alice", "bob"}
Passwords == {"pw1", "pw2"}
KeyIds == {"k1", "k2"}

\* The instants the clock is observed at: the start, and the seconds around
\* the expiry of a token issued at the start.
Times == {0} \cup ((Hour - 1)..(Hour + MaxLate))

\* store:  the UserAuthentication entities, by username
\* reg:    each registration request: its position, locals and response
\* now:    the clock, in Unix seconds
\* assets: the embedded key files of the deployed build
\* issued: the tokens login has returned
\* login, authz: the outcome of the request just answered, when it was a
\*         login or a request to the protected handler; any other step
\*         clears them
VARIABLES store, reg, now, assets, issued, login, authz

vars == <<store, reg, now, assets, issued, login, authz>>

\* ------------------------------------------------------------ bcrypt
NoEntity == [salt |-> 0, digest |-> <<>>]

Digest(salt, pw) == <<salt, pw>>

\* bcrypt.GenerateFromPassword: a fresh salt per call, and the digest of it
\* with the password.
GenerateFromPassword(pw, salt) == [salt |-> salt, digest |-> Digest(salt, pw)]

CompareAlwaysOk(hashed, pw) == TRUE

\* bcrypt.CompareHashAndPassword: recompute with the stored salt and compare.
CompareHashAndPassword(hashed, pw) == Digest(hashed.salt, pw) = hashed.digest

\* ------------------------------------------------------------ datastore
\* datastore.Get: the entity, or ErrNoSuchEntity.
Get(u) == IF store[u] = NoEntity THEN "ErrNoSuchEntity" ELSE "nil"

GetErrIgnored(err) == FALSE

\* A test that takes only a found entity for an existing user.
AlreadyExistFoundOnly(err) == err = "nil"

\* The transaction function's test of Get's error: anything but
\* ErrNoSuchEntity ends the transaction with "user already exist".
AlreadyExist(err) == err /= "ErrNoSuchEntity"

ConflictNever(p) == FALSE

\* Optimistic concurrency of RunInTransaction: the commit fails with
\* ErrConcurrentTransaction when the entity read in the transaction was
\* written by another transaction since.
Conflict(p) == store[reg[p].user] /= reg[p].seen

\* RunInTransaction runs the function at most three times.
Attempts == 3

\* ------------------------------------------------------------ responses
\* A response that reports success whatever the transaction returned.
RegistrationResponseAlways(err) == [Success |-> TRUE]

\* RegistrationHandlerResponse, from the transaction's error.
RegistrationResponse(err) == [Success |-> err = "nil"]

NoReg ==
    [pc |-> "idle", user |-> "", pw |-> "", hash |-> NoEntity, seen |-> NoEntity,
     attempt |-> 0, got |-> "", resp |-> [Success |-> FALSE], cause |-> ""]

\* ------------------------------------------------------------ tokens
NoExp == -1
NoSig == [key |-> "", alg |-> "", sub |-> "", exp |-> NoExp]
NoToken == [alg |-> "", sub |-> "", exp |-> NoExp, sig |-> NoSig]

\* The ECDSA signature of the signing string (header and claims) under the
\* private key of pair k.
Sign(k, alg, sub, exp) == [key |-> k, alg |-> alg, sub |-> sub, exp |-> exp]

\* jwt.NewWithClaims(ES256, {sub, exp = now + 1h}) and SignedString.
SignedStringOtherHeader(k, u, t) ==
    [alg |-> "ES256", sub |-> u, exp |-> t + Hour, sig |-> Sign(k, "", u, t + Hour)]

SignedString(k, u, t) ==
    [alg |-> "ES256", sub |-> u, exp |-> t + Hour, sig |-> Sign(k, "ES256", u, t + Hour)]

AuthFailureByCause(cause) == [Success |-> FALSE, Token |-> [NoToken EXCEPT !.sub = cause]]

\* AuthenticationHandlerResponse{Success: false}, whatever the cause.
AuthFailure(cause) == [Success |-> FALSE, Token |-> NoToken]

AuthSuccess(tok) == [Success |-> TRUE, Token |-> tok]

NoLogin ==
    [out |-> "none", user |-> "", pw |-> "", regPw |-> "", cause |-> "",
     resp |-> AuthFailure(""), signed |-> FALSE]

\* The password of the registration that committed for u, "" when none did.
RegisteredPw(u) ==
    IF \E p \in Procs : reg[p].user = u /\ reg[p].cause = "ok"
    THEN reg[CHOOSE p \in Procs : reg[p].user = u /\ reg[p].cause = "ok"].pw
    ELSE ""

\* ------------------------------------------------------------ authorization
\* The Authorization header is a string: here a sequence of words, single
\* spaces and compact tokens, so that SplitN and the scheme test are computed.
W(w) == [word |-> w, tok |-> NoToken]
SP == W(" ")
J(t) == [word |-> "jwt", tok |-> t]
Bearer(t) == <<W("Bearer"), SP, J(t)>>

\* Index of the first space of h, 0 when it has none.
FirstSpace(h) ==
    IF \E i \in 1..Len(h) : h[i] = SP
    THEN CHOOSE i \in 1..Len(h) : h[i] = SP /\ \A k \in 1..(i - 1) : h[k] /= SP
    ELSE 0

\* strings.SplitN(header, " ", 2)
SplitN2(h) ==
    LET i == FirstSpace(h) IN
    IF i = 0 THEN <<h>> ELSE <<SubSeq(h, 1, i - 1), SubSeq(h, i + 1, Len(h))>>

\* The header is not empty and splits into "Bearer" and one more part.
HeaderShape(h) ==
    /\ h /= <<>>
    /\ LET parts == SplitN2(h) IN Len(parts) = 2 /\ parts[1] = <<W("Bearer")>>

\* The signing methods jwt-go registers; GetSigningMethod of another name is nil.
SigningMethods == {"ES256", "ES384", "HS256", "none"}

KeyfuncNoAlgCheck(alg, pub) ==
    IF pub = "missing" THEN [err |-> "KeyUnavailable", key |-> "", steps |-> {"load"}]
    ELSE IF pub = "corrupt" THEN [err |-> "KeyUnavailable", key |-> "", steps |-> {"load", "parsekey"}]
    ELSE [err |-> "", key |-> pub, steps |-> {"load", "parsekey"}]

\* A key function that keeps the public key it parsed at start-up.
KeyfuncCached(alg, pub) ==
    IF alg /= "ES256" THEN [err |-> "AlgorithmMismatch", key |-> "", steps |-> {"alg"}]
    ELSE [err |-> "", key |-> "k1", steps |-> {"alg"}]

\* The key function given to jwt.Parse: the method test, then the public key
\* asset, then its parse.
Keyfunc(alg, pub) ==
    IF alg /= "ES256" THEN [err |-> "AlgorithmMismatch", key |-> "", steps |-> {"alg"}]
    ELSE IF pub = "missing"
    THEN [err |-> "KeyUnavailable", key |-> "", steps |-> {"alg", "load"}]
    ELSE IF pub = "corrupt"
    THEN [err |-> "KeyUnavailable", key |-> "", steps |-> {"alg", "load", "parsekey"}]
    ELSE [err |-> "", key |-> pub, steps |-> {"alg", "load", "parsekey"}]

\* MapClaims.Valid, exp only: an absent exp is not required, a present one
\* is valid while now <= exp.
VerifyExp(exp, t) == exp = NoExp \/ t <= exp

VerifyAny(key, tok) == TRUE

\* SigningMethodECDSA.Verify of the signing string against the signature.
Verify(key, tok) == tok.sig = Sign(key, tok.alg, tok.sub, tok.exp)

NilToken == [nil |-> TRUE, sub |-> "", valid |-> FALSE]

\* jwt.Parse(tokenString, keyfunc): [err, token, steps].
Parse(s, pub, t) ==
    IF ~(Len(s) = 1 /\ s[1].word = "jwt")
    THEN [err |-> "Malformed", token |-> NilToken, steps |-> {"parse"}]
    ELSE LET tok == s[1].tok IN
         IF tok.alg \notin SigningMethods
         THEN [err |-> "AlgorithmMismatch", token |-> NilToken, steps |-> {"parse", "method"}]
         ELSE LET kf == Keyfunc(tok.alg, pub) IN
              IF kf.err /= ""
              THEN [err |-> kf.err, token |-> NilToken,
                    steps |-> {"parse", "method"} \cup kf.steps]
              ELSE LET expOk == VerifyExp(tok.exp, t)
                       sigOk == Verify(kf.key, tok)
                   IN [err |-> IF ~sigOk THEN "BadSignature"
                               ELSE IF ~expOk THEN "Expired" ELSE "",
                       token |-> [nil |-> FALSE, sub |-> tok.sub, valid |-> sigOk /\ expOk],
                       steps |-> {"parse", "method", "claims", "verify"} \cup kf.steps]

\* Authorization(r): [token, err, steps]; the token is nil whenever err is set.
Authorization(h, pub, t) ==
    IF ~HeaderShape(h)
    THEN [token |-> NilToken, err |-> "InvalidHeader", steps |-> {}]
    ELSE LET r == Parse(SplitN2(h)[2], pub, t) IN
         IF r.err /= "" THEN [token |-> NilToken, err |-> r.err, steps |-> r.steps]
         ELSE IF ~r.token.valid THEN [token |-> NilToken, err |-> "InvalidToken", steps |-> r.steps]
         ELSE [token |-> r.token, err |-> "", steps |-> r.steps]

NoSub == ""

HelloFailureByReason(err) == [Success |-> FALSE, Message |-> <<err>>]

\* HelloWorldHandlerResponse{Success: false}, whatever the error.
HelloFailure(err) == [Success |-> FALSE, Message |-> <<>>]

\* AuthorizedHelloWorldHandler's responses and how it ends: after the failure
\* response it goes on to read the nil token.
HelloOutcome(a) ==
    IF a.err /= ""
    THEN [writes |-> <<HelloFailure(a.err)>>, end |-> "panic: nil token"]
    ELSE IF a.token.sub = NoSub
    THEN [writes |-> <<>>, end |-> "panic: sub is not a string"]
    ELSE [writes |-> <<[Success |-> TRUE, Message |-> <<"Hello ", a.token.sub>>]>>,
          end |-> "return"]

NoAuthz ==
    [hdr |-> <<>>, at |-> 0, res |-> [token |-> NilToken, err |-> "", steps |-> {}],
     out |-> [writes |-> <<>>, end |-> "none"]]

\* What a client can put in the header: fixed shapes, the tokens login has
\* returned, those tokens with a part altered, and tokens signed by a key of
\* the client's own or keyed with the public key.
Tampered(t) ==
    {[t EXCEPT !.sub = u] : u \in Users \ {t.sub}}
      \cup {[t EXCEPT !.exp = t.exp + Hour]}
      \cup {[t EXCEPT !.alg = "HS256"]}
      \cup {[t EXCEPT !.sig = [t.sig EXCEPT !.key = "flipped"]]}

Forged ==
    {[alg |-> "ES256", sub |-> u, exp |-> now + Hour,
      sig |-> Sign("attacker", "ES256", u, now + Hour)] : u \in Users}
      \cup {[alg |-> a, sub |-> "alice", exp |-> now + Hour,
              sig |-> Sign("pub-as-hmac", a, "alice", now + Hour)] : a \in {"HS256", "XX"}}

TokenInputs == issued \cup UNION {Tampered(t) : t \in issued} \cup Forged

HeaderInputs ==
    {<<>>, <<W("Token"), SP, W("abc")>>, <<W("Bearer")>>, <<W("bearer"), SP, W("x")>>,
     <<W("Bearer"), SP>>, <<W("Bearer"), SP, W("abc")>>, <<W("Bearer"), SP, SP, W("abc")>>}
      \cup {Bearer(t) : t \in TokenInputs}
      \cup {<<J(t)>> : t \in issued}

\* ------------------------------------------------------------ registration
\* The handler up to the transaction: decode, hash the password (a fresh
\* salt per call), or panic when hashing fails.
RegStart(p) ==
    /\ reg[p].pc = "idle"
    /\ \E u \in Users, pw \in Passwords :
         \/ reg' = [reg EXCEPT ![p] = [NoReg EXCEPT !.pc = "get", !.user = u, !.pw = pw,
                                        !.hash = GenerateFromPassword(pw, p),
                                        !.attempt = 1]]
         \/ reg' = [reg EXCEPT ![p] = [NoReg EXCEPT !.pc = "panic", !.user = u, !.pw = pw,
                                        !.cause = "hash"]]
    /\ login' = NoLogin /\ authz' = NoAuthz
    /\ UNCHANGED <<store, now, assets, issued>>

RegFinish(p, err, cause) ==
    reg' = [reg EXCEPT ![p].pc = "done", ![p].resp = RegistrationResponse(err),
                       ![p].cause = cause]

\* datastore.Get inside the transaction and the test of its error.
TxGet(p) ==
    /\ reg[p].pc = "get"
    /\ \E err \in {Get(reg[p].user), "ErrInternal"} :
         IF AlreadyExist(err)
         THEN reg' = [reg EXCEPT ![p].pc = "done", ![p].got = err,
                                 ![p].resp = RegistrationResponse("user already exist"),
                                 ![p].cause = IF err = "nil" THEN "exists" ELSE "geterror"]
         ELSE reg' = [reg EXCEPT ![p].pc = "put", ![p].got = err,
                                 ![p].seen = store[reg[p].user]]
    /\ login' = NoLogin /\ authz' = NoAuthz
    /\ UNCHANGED <<store, now, assets, issued>>

\* datastore.Put inside the transaction: buffered until the commit.
TxPut(p) ==
    /\ reg[p].pc = "put"
    /\ \/ reg' = [reg EXCEPT ![p].pc = "commit"]
       \/ RegFinish(p, "ErrInternal", "puterror")
    /\ login' = NoLogin /\ authz' = NoAuthz
    /\ UNCHANGED <<store, now, assets, issued>>

\* The commit: on a conflict the function is run again, up to Attempts
\* times; otherwise the buffered Put is applied and the handler answers.
TxCommit(p) ==
    /\ reg[p].pc = "commit"
    /\ IF Conflict(p)
       THEN /\ IF reg[p].attempt < Attempts
               THEN reg' = [reg EXCEPT ![p].pc = "get", ![p].attempt = @ + 1]
               ELSE RegFinish(p, "ErrConcurrentTransaction", "conflict")
            /\ UNCHANGED store
       ELSE /\ store' = [store EXCEPT ![reg[p].user] = reg[p].hash]
            /\ RegFinish(p, "nil", "ok")
    /\ login' = NoLogin /\ authz' = NoAuthz
    /\ UNCHANGED <<now, assets, issued>>

\* ------------------------------------------------------------ requests
\* A handler that rewrites the subject's entity when it accepts a token.
AuthorizedHelloWorldHandlerPut ==
    /\ \E h \in HeaderInputs :
         LET a == Authorization(h, assets.pub, now) IN
         /\ authz' = [hdr |-> h, at |-> now, res |-> a, out |-> HelloOutcome(a)]
         /\ store' = IF a.err = "" /\ a.token.sub \in Users
                     THEN [store EXCEPT ![a.token.sub] = NoEntity]
                     ELSE store
    /\ login' = NoLogin
    /\ UNCHANGED <<reg, now, assets, issued>>

\* A request to /authorized_hello.
AuthorizedHelloWorldHandler ==
    /\ \E h \in HeaderInputs :
         LET a == Authorization(h, assets.pub, now) IN
         authz' = [hdr |-> h, at |-> now, res |-> a, out |-> HelloOutcome(a)]
    /\ login' = NoLogin
    /\ UNCHANGED <<store, reg, now, assets, issued>>

\* ------------------------------------------------------------ login
LoginLog(u, pw, out, cause, resp, signed) ==
    [out |-> out, user |-> u, pw |-> pw, regPw |-> RegisteredPw(u), cause |-> cause,
     resp |-> resp, signed |-> signed]

\* AuthenticationHandler for one request: Get, compare, load and parse the
\* private key, sign. fault is what the infrastructure does to this request:
\* "store" fails the Get with an error other than ErrNoSuchEntity, "sign"
\* fails SignedString.
Authenticate(u, pw, fault) ==
    LET getErr == IF fault = "store" THEN "ErrInternal" ELSE Get(u) IN
    IF getErr /= "nil"
    THEN LoginLog(u, pw, "resp", IF getErr = "ErrNoSuchEntity" THEN "NotFound" ELSE "StoreError",
                  AuthFailure("NotFound"), FALSE)
    ELSE IF ~CompareHashAndPassword(store[u], pw)
    THEN LoginLog(u, pw, "resp", "WrongPassword", AuthFailure("WrongPassword"), FALSE)
    ELSE IF assets.pri \notin KeyIds
    THEN LoginLog(u, pw, "panic", assets.pri, AuthFailure(""), FALSE)
    ELSE IF fault = "sign"
    THEN LoginLog(u, pw, "panic", "sign", AuthFailure(""), TRUE)
    ELSE LoginLog(u, pw, "resp", "ok", AuthSuccess(SignedString(assets.pri, u, now)), TRUE)

\* A request to /authentication.
AuthenticationHandler ==
    /\ \E u \in Users, pw \in Passwords, fault \in {"none", "store", "sign"} :
         LET r == Authenticate(u, pw, fault) IN
         /\ login' = r
         /\ IF r.resp.Success
            THEN /\ r.resp.Token \in issued \/ Cardinality(issued) < MaxIssued
                 /\ issued' = issued \cup {r.resp.Token}
            ELSE UNCHANGED issued
    /\ authz' = NoAuthz
    /\ UNCHANGED <<store, reg, now, assets>>

\* ------------------------------------------------------------ environment
Deployments ==
    {[pri |-> k, pub |-> k] : k \in KeyIds}
      \cup {[pri |-> "missing", pub |-> "missing"], [pri |-> "corrupt", pub |-> "corrupt"]}

\* A build with other embedded key assets is deployed.
Deploy ==
    /\ \E d \in Deployments \ {assets} : assets' = d
    /\ login' = NoLogin /\ authz' = NoAuthz
    /\ UNCHANGED <<store, reg, now, issued>>

\* Time passes.
Tick ==
    /\ \E t \in Times : t > now /\ now' = t
    /\ login' = NoLogin /\ authz' = NoAuthz
    /\ UNCHANGED <<store, reg, assets, issued>>

Init ==
    /\ store = [u \in Users |-> NoEntity]
    /\ reg = [p \in Procs |-> NoReg]
    /\ now = 0
    /\ assets = [pri |-> "k1", pub |-> "k1"]
    /\ issued = {}
    /\ login = NoLogin
    /\ authz = NoAuthz

\* One client registers; logins, protected requests, deployments and the
\* clock are free.
Next ==
    \/ RegStart(1)
    \/ TxGet(1)
    \/ TxPut(1)
    \/ TxCommit(1)
    \/ AuthenticationHandler
    \/ AuthorizedHelloWorldHandler
    \/ Deploy
    \/ Tick

Spec == Init /\ [][Next]_vars

\* Every client registers, concurrently, and logins are free; the key assets
\* and the clock stay as deployed.
NextReg ==
    \/ \E p \in Procs : RegStart(p)
    \/ \E p \in Procs : TxGet(p)
    \/ \E p \in Procs : TxPut(p)
    \/ \E p \in Procs : TxCommit(p)
    \/ AuthenticationHandler

SpecReg == Init /\ [][NextReg]_vars

\* Tokens the holder of private key k can sign outside login, ES256, with a
\* payload that leaves out exp, sub or both.
SignedWithout(k) ==
    {[alg |-> "ES256", sub |-> u, exp |-> NoExp, sig |-> Sign(k, "ES256", u, NoExp)] :
        u \in Users \cup {NoSub}}
      \cup {[alg |-> "ES256", sub |-> NoSub, exp |-> now + Hour,
              sig |-> Sign(k, "ES256", NoSub, now + Hour)]}

\* A request to /authorized_hello that carries such a token, signed under the
\* deployed private key.
KeyHolderRequest ==
    /\ assets.pri \in KeyIds
    /\ \E t \in SignedWithout(assets.pri) :
         LET a == Authorization(Bearer(t), assets.pub, now) IN
         authz' = [hdr |-> Bearer(t), at |-> now, res |-> a, out |-> HelloOutcome(a)]
    /\ login' = NoLogin
    /\ UNCHANGED <<store, reg, now, assets, issued>>

\* Spec, with the holder of the private key among the clients.
NextSigner ==
    \/ Next
    \/ KeyHolderRequest

SpecSigner == Init /\ [][NextSigner]_vars
\* ================================================================ claims
\* The registration requests for u that have answered, and those among them
\* that answered Success = true.
RegDone(u) == {p \in Procs : reg[p].user = u /\ reg[p].pc = "done"}
RegWon(u) == {p \in RegDone(u) : reg[p].resp.Success}

\* C1: however the transactional Get, Put and commit steps of the
\* registrations for one username interleave, at most one answers
\* Success = true; as soon as one of them has answered without a store or
\* hashing failure, exactly one has answered Success = true, every other
\* answer is Success = false, and the store holds exactly the entity that
\* request put.
C1_ExactlyOneRegistration ==
    \A u \in Users :
        /\ Cardinality(RegWon(u)) <= 1
        /\ (RegWon(u) = {}) = (store[u] = NoEntity)
        /\ (\E p \in RegDone(u) : reg[p].cause \in {"ok", "exists", "conflict"})
             => /\ Cardinality(RegWon(u)) = 1
                /\ \A p \in RegDone(u) \ RegWon(u) : reg[p].resp = [Success |-> FALSE]
                /\ \A p \in RegWon(u) : store[u] = reg[p].hash
        /\ (RegDone(u) = Procs /\ \A p \in Procs : reg[p].cause \notin {"geterror", "puterror"})
             => Cardinality(RegWon(u)) = 1

\* Every client registered the same username, two of them raced to the
\* commit, and the loser was run again and refused.
C1_Witness ==
    \E u \in Users :
        /\ RegDone(u) = Procs
        /\ \E p, q \in Procs :
             /\ reg[p].resp.Success
             /\ ~reg[q].resp.Success /\ reg[q].attempt = 2 /\ reg[q].cause = "exists"

\* C2: a stored credential is never written again, by any request: a
\* registration whose Get finds the username answers Success = false and its
\* own hash is not stored; a login with the registered password is then not
\* refused as wrong, and one with another password is.
C2_CredentialImmutable ==
    /\ [][\A u \in Users : store[u] /= NoEntity => store'[u] = store[u]]_vars
    /\ [](\A p \in Procs :
            (reg[p].pc = "done" /\ reg[p].cause = "exists")
              => /\ reg[p].resp = [Success |-> FALSE]
                 /\ store[reg[p].user] /= reg[p].hash
                 /\ store[reg[p].user] /= NoEntity)
    /\ []((login.out /= "none" /\ login.regPw /= "" /\ login.cause /= "StoreError")
            => /\ login.pw = login.regPw => login.cause /= "WrongPassword"
               /\ login.pw /= login.regPw
                    => login.resp = [Success |-> FALSE, Token |-> NoToken])

\* A registration with a new password was refused for a registered
\* username, and a login with that new password has failed.
C2_Witness ==
    \E p \in Procs :
        /\ reg[p].pc = "done" /\ reg[p].cause = "exists"
        /\ reg[p].pw /= RegisteredPw(reg[p].user)
        /\ login.out = "resp" /\ login.user = reg[p].user /\ login.pw = reg[p].pw
        /\ ~login.resp.Success

\* C3: a login answers Success = true, with a signed token for the user, only
\* when the username is registered and the password is the registered one;
\* in every other case it answers Success = false with no token and signs
\* nothing; and with the registered password it does answer Success = true
\* unless the store, the key asset or the signing fails for that request.
C3_LoginDecision ==
    login.out /= "none" =>
        LET right == login.regPw /= "" /\ login.pw = login.regPw IN
        /\ (login.out = "resp" /\ login.resp.Success)
             => /\ right /\ login.signed
                /\ login.resp.Token /= NoToken
                /\ login.resp.Token.sub = login.user
        /\ ~right => /\ login.out = "resp"
                     /\ login.resp = [Success |-> FALSE, Token |-> NoToken]
                     /\ ~login.signed
        /\ (right /\ login.cause \notin {"StoreError", "missing", "corrupt", "sign"})
             => login.out = "resp" /\ login.resp.Success

\* A registered user has logged in with the registered password.
C3_Witness ==
    /\ login.out = "resp" /\ login.resp.Success
    /\ login.pw = login.regPw
    /\ CompareHashAndPassword(store[login.user], login.pw)

\* The login requests possible now, without an infrastructure failure.
LoginRuns == {Authenticate(u, pw, "none") : u \in Users, pw \in Passwords}

\* C4: a login for an unregistered username and a login for a registered
\* username with a wrong password get the same answer.
C4_SameFailure ==
    /\ \A a, b \in LoginRuns :
         (a.cause = "NotFound" /\ b.cause = "WrongPassword")
           => a.out = b.out /\ a.resp = b.resp
    /\ login.cause \in {"NotFound", "WrongPassword"}
         => login.out = "resp" /\ login.resp = [Success |-> FALSE, Token |-> NoToken]

\* A login was refused for a wrong password while another username is not
\* registered.
C4_Witness ==
    /\ login.out = "resp" /\ login.cause = "WrongPassword"
    /\ \E a \in LoginRuns : a.cause = "NotFound"

\* C5: the token a successful login of u returned carries sub = u, and while
\* it is unexpired and the deployed public key is of the pair that signed it,
\* Authorization accepts "Bearer <token>" with subject u and the protected
\* handler greets u.
C5_RoundTrip ==
    /\ (login.out = "resp" /\ login.resp.Success)
         => /\ login.resp.Token \in issued
            /\ login.resp.Token.sub = login.user
            /\ store[login.user] /= NoEntity
    /\ \A t \in issued :
         (now < t.exp /\ assets.pub = t.sig.key)
           => LET a == Authorization(Bearer(t), assets.pub, now) IN
              /\ a.err = "" /\ ~a.token.nil /\ a.token.valid
              /\ a.token.sub = t.sub
              /\ store[t.sub] /= NoEntity
              /\ HelloOutcome(a) =
                   [writes |-> <<[Success |-> TRUE, Message |-> <<"Hello ", t.sub>>]>>,
                    end |-> "return"]

\* A token from login was presented a second before its expiry and accepted.
C5_Witness ==
    \E t \in issued :
        /\ authz.hdr = Bearer(t) /\ authz.at = t.exp - 1
        /\ authz.res.err = "" /\ authz.res.token.sub = t.sub
        /\ authz.out.end = "return"

\* The tokens a header carries in the shape Bearer <token>.
Presented(h) == IF HeaderShape(h) /\ Len(h) = 3 /\ h[3].word = "jwt" THEN {h[3].tok} ELSE {}

\* C6: a token that declares another algorithm than ES256 is rejected
\* without the public key asset being loaded or parsed and without a
\* signature check; whenever the key is loaded the method test has passed.
C6_AlgorithmBeforeKey ==
    /\ \A h \in HeaderInputs \cup {authz.hdr} :
         LET a == Authorization(h, assets.pub, now) IN
         /\ \A t \in Presented(h) :
              t.alg /= "ES256"
                => /\ a.err /= "" /\ a.token.nil
                   /\ a.steps \cap {"load", "parsekey", "verify"} = {}
         /\ "load" \in a.steps
              => "alg" \in a.steps /\ \A t \in Presented(h) : t.alg = "ES256"
    /\ \A t \in Presented(authz.hdr) :
         t.alg /= "ES256"
           => /\ authz.res.err /= ""
              /\ authz.res.steps \cap {"load", "parsekey", "verify"} = {}

\* A token that declares HS256 and is keyed with the public key was refused
\* at the method test.
C6_Witness ==
    \E t \in Presented(authz.hdr) :
        /\ t.alg = "HS256" /\ t.sig.key = "pub-as-hmac"
        /\ authz.res.err = "AlgorithmMismatch"
        /\ authz.res.steps = {"parse", "method", "alg"}

\* C7, as claimed: a token is accepted only at a time strictly before its
\* exp, so at every time at or after exp it is rejected.
C7_AcceptedOnlyBeforeExpiry ==
    /\ \A t \in issued : t.exp - Hour \in Times
    /\ (authz.out.end /= "none" /\ authz.res.err = "")
         => \A t \in Presented(authz.hdr) : authz.at < t.exp

\* C8: what Authorization accepts is a token a login returned, signed under
\* the deployed key pair, for a registered username that is the accepted
\* subject; a token whose signature is not that of its header and claims
\* under the deployed public key is rejected.
C8_NoForgedAcceptance ==
    /\ \A h \in HeaderInputs :
         LET a == Authorization(h, assets.pub, now) IN
         a.err = ""
           => \E t \in issued :
                /\ h = Bearer(t) /\ t.sig.key = assets.pub
                /\ a.token.sub = t.sub /\ store[t.sub] /= NoEntity
    /\ \A t \in TokenInputs :
         t.sig /= Sign(assets.pub, t.alg, t.sub, t.exp)
           => Authorization(Bearer(t), assets.pub, now).err /= ""
    /\ (authz.out.end /= "none" /\ authz.res.err = "")
         => \E t \in issued : authz.hdr = Bearer(t) /\ authz.res.token.sub = t.sub

\* A token from login with its sub or exp altered and the signature kept was
\* presented under the key that signed it and refused.
C8_Witness ==
    \E t \in issued : \E f \in Tampered(t) :
        /\ f.alg = "ES256" /\ f.sig = t.sig /\ t.sig.key = assets.pub
        /\ authz.hdr = Bearer(f)
        /\ authz.res.err = "BadSignature"

\* "Bearer <token>": the scheme, one space, and a token part.
ExactBearerShape(h) == Len(h) = 3 /\ h[1] = W("Bearer") /\ h[2] = SP /\ h[3] /= SP

\* C9, as claimed: every header that is not exactly "Bearer <token>" is
\* rejected as an invalid header without the token parser being invoked.
C9_OnlyExactShape ==
    (authz.out.end /= "none" /\ ~ExactBearerShape(authz.hdr))
      => authz.res.err = "InvalidHeader" /\ authz.res.steps = {}

\* C10: whatever the reason of the rejection, the protected handler does the
\* same: it writes HelloWorldHandlerResponse{Success: false} with no message.
C10_UniformRejection ==
    /\ \A h \in HeaderInputs :
         LET a == Authorization(h, assets.pub, now) IN
         a.err /= ""
           => /\ HelloOutcome(a).writes = <<[Success |-> FALSE, Message |-> <<>>]>>
              /\ HelloOutcome(a) = HelloOutcome(Authorization(<<>>, assets.pub, now))
    /\ (authz.out.end /= "none" /\ authz.res.err /= "")
         => authz.out = HelloOutcome(Authorization(<<>>, assets.pub, now))

\* An expired token was refused while other headers are refused for other
\* reasons.
C10_Witness ==
    /\ authz.res.err = "Expired"
    /\ authz.out.writes = <<[Success |-> FALSE, Message |-> <<>>]>>
    /\ Cardinality({Authorization(h, assets.pub, now).err : h \in HeaderInputs}) >= 5

\* C11, as claimed: a failure of the password hashing in a registration, or
\* of the private key load, its parse or the signing in a login, is answered
\* with Success = false, and the registration stores nothing.
C11_FailureAnswered ==
    /\ \A p \in Procs :
         reg[p].cause = "hash"
           => /\ reg[p].pc = "done" /\ reg[p].resp = [Success |-> FALSE]
              /\ store[reg[p].user] /= reg[p].hash
    /\ login.cause \in {"missing", "corrupt", "sign"}
         => login.out = "resp" /\ login.resp = [Success |-> FALSE, Token |-> NoToken]

\* C12: a request to the protected handler changes neither the credential
\* store nor the key material (nor the registrations, the clock or the tokens
\* handed out), and its verdict and response are those Authorization gives for
\* the request's header under the public key and the time of that moment,
\* whatever registrations, logins and verifications came before.
C12_VerificationStateless ==
    /\ [][authz'.out.end /= "none"
            => /\ store' = store /\ assets' = assets
               /\ reg' = reg /\ issued' = issued /\ now' = now]_vars
    /\ [](authz.out.end /= "none"
            => /\ authz.at = now
               /\ authz.res = Authorization(authz.hdr, assets.pub, now)
               /\ authz.out = HelloOutcome(authz.res))

\* A token is accepted under the swapped-in key while credentials are stored.
C12_Witness ==
    /\ authz.out.end = "return"
    /\ assets.pub = "k2"
    /\ store[authz.res.token.sub] /= NoEntity

\* C13, as claimed: a token signed under the deployed key with ES256 whose
\* payload has no exp or no sub is rejected by Authorization and gets no
\* success response.
C13_MissingClaimRejected ==
    \A k \in KeyIds : \A t \in SignedWithout(k) :
        (authz.out.end /= "none" /\ authz.hdr = Bearer(t) /\ assets.pub = k)
          => /\ authz.res.err /= ""
             /\ authz.out.writes = <<HelloFailure(authz.res.err)>>

\* C14: each login signs under the private key deployed at the time of that
\* login and each verification checks against the public key deployed at the
\* time of that verification: a token signed under a key pair that has since
\* been replaced is rejected, and the token a login has just returned is
\* accepted under the pair deployed now.
C14_KeysReadPerCall ==
    /\ (login.out = "resp" /\ login.resp.Success)
         => /\ login.resp.Token.sig.key = assets.pri
            /\ Authorization(Bearer(login.resp.Token), assets.pub, now).err = ""
    /\ \A t \in issued :
         (assets.pub \in KeyIds /\ t.sig.key /= assets.pub)
           => Authorization(Bearer(t), assets.pub, now).err = "BadSignature"
    /\ \A t \in issued :
         (authz.out.end /= "none" /\ authz.hdr = Bearer(t))
           => /\ "load" \in authz.res.steps
              /\ authz.res.err = "" => t.sig.key = assets.pub
              /\ (t.sig.key = assets.pub /\ now < t.exp) => authz.res.err = ""

\* After the key pair k1 was replaced by k2, the token of the earlier login is
\* presented and refused for its signature.
C14_Witness ==
    \E t \in issued :
        /\ t.sig.key = "k1" /\ assets.pub = "k2"
        /\ authz.hdr = Bearer(t) /\ authz.res.err = "BadSignature"

\* C15, as claimed: the protected handler writes exactly one response per
\* request, and when Authorization returns an error it returns after the
\* failure response, without reading the claims or the validity of the nil
\* token.
C15_OneResponseThenReturn ==
    authz.out.end /= "none"
      => /\ Len(authz.out.writes) = 1
         /\ authz.res.err /= "" => authz.out.end = "return"

\* C16: when registrations for one username run concurrently, the stored
\* hash is the one computed from the password of the registration that
\* answered Success = true: it matches that password and no other password
\* of the registrations that answered Success = false, and a login for the
\* username succeeds only with that password and, unless the store, the key
\* asset or the signing fails it, does succeed with it.
C16_WinnerPasswordStored ==
    \A u \in Users : \A p \in RegWon(u) :
        /\ store[u] = reg[p].hash
        /\ CompareHashAndPassword(store[u], reg[p].pw)
        /\ \A q \in RegDone(u) \ {p} :
             /\ ~reg[q].resp.Success
             /\ reg[q].pw /= reg[p].pw => ~CompareHashAndPassword(store[u], reg[q].pw)
        /\ (login.out /= "none" /\ login.user = u)
             => /\ (login.out = "resp" /\ login.resp.Success) => login.pw = reg[p].pw
                /\ (login.pw = reg[p].pw
                      /\ login.cause \notin {"StoreError", "missing", "corrupt", "sign"})
                     => login.out = "resp" /\ login.resp.Success

\* Two registrations for one username with different passwords met at the
\* commit; the one that lost was run again and answered Success = false, and
\* a login with its password has been refused.
C16_Witness ==
    \E p, q \in Procs :
        /\ reg[p].user = reg[q].user /\ reg[p].pw /= reg[q].pw
        /\ reg[p].pc = "done" /\ reg[p].resp.Success
        /\ reg[q].pc = "done" /\ ~reg[q].resp.Success /\ reg[q].attempt = 2
        /\ login.user = reg[q].user /\ login.pw = reg[q].pw
        /\ login.cause = "WrongPassword"

\* C17: a registration whose Get fails with an error other than "no such
\* entity" ends its transaction there: the step leaves the store as it was,
\* the request never reaches Put, answers Success = false, and its hash is
\* not stored.
C17_LookupErrorStoresNothing ==
    /\ [][\A p \in Procs :
            (reg[p].pc = "get" /\ reg'[p].got = "ErrInternal")
              => store' = store /\ reg'[p].pc = "done"]_vars
    /\ [](\A p \in Procs :
            reg[p].got = "ErrInternal"
              => /\ reg[p].pc = "done" /\ reg[p].cause = "geterror"
                 /\ reg[p].resp = [Success |-> FALSE]
                 /\ store[reg[p].user] /= reg[p].hash)

\* The lookup of a free username failed: the request answered
\* Success = false and the username is still free.
C17_Witness ==
    \E p \in Procs :
        /\ reg[p].got = "ErrInternal" /\ reg[p].pc = "done"
        /\ ~reg[p].resp.Success
        /\ store[reg[p].user] = NoEntity
====
